---------------------------- MODULE Spec2Model ----------------------------
(***************************************************************************)
(* Model of benchmark.py: the UnionFind class, the DIMACS loader, Kruskal  *)
(* (run_kruskal) and lazy-deletion Prim (run_prim), and the order in which *)
(* benchmark() calls them.                                                 *)
(*                                                                         *)
(* Two state machines share the variables:                                 *)
(*   Spec    benchmark() on one graph: the loader appends edges, then one  *)
(*           call of run_kruskal runs edge by edge and one call of         *)
(*           run_prim runs pop by pop (benchmark() repeats each call three *)
(*           times on the same num_nodes, edges and adj).                  *)
(*   UFSpec  a UnionFind(n) object driven by arbitrary find/union calls.   *)
(* FairSpec is Spec with the fairness a single-threaded run gives.         *)
(***************************************************************************)
EXTENDS Integers, Sequences, FiniteSets

VARIABLES
    pc,            \* where the program is: load, kruskal, prim, done, error, uf
    num_nodes,     \* num_nodes of the graph (the n of UnionFind(n) in UFSpec)
    edges,         \* the edge list, a sequence of <<u, v, w>>
    adj,           \* the defaultdict: a function from its keys to lists of <<w, v>>
    parent,        \* UnionFind.parent, a function on 0..n
    rank,          \* UnionFind.rank, a function on 0..n
    sorted_edges,  \* run_kruskal's sorted copy
    idx,           \* how many entries of sorted_edges the for loop has consumed
    mst_weight,    \* the local mst_weight of the run in progress
    edges_count,   \* run_kruskal's edges_count
    pq,            \* run_prim's heap, as the sorted sequence of its entries <<w, u>>
    visited,       \* run_prim's visited set
    k_cost,        \* benchmark's k_cost: what run_kruskal returned
    p_cost,        \* benchmark's p_cost: what run_prim returned
    ret,           \* what the last UnionFind.union call returned
    classes        \* history (UFSpec): the classes of the equivalence generated by
                   \* the pairs passed to union so far

vars == <<pc, num_nodes, edges, adj, parent, rank, sorted_edges, idx, mst_weight,
          edges_count, pq, visited, k_cost, p_cost, ret, classes>>

\* Bounds of the model.
MaxN == 3
MaxEdges == 2
MaxWeight == 2
MaxUF == 3

Weights == 0..MaxWeight

-----------------------------------------------------------------------------
(* UnionFind *)

\* UnionFind.__init__: parent = list(range(n + 1))
InitParent(n) == [i \in 0..n |-> i]

\* UnionFind.__init__: rank = [0] * (n + 1)
InitRank(n) == [i \in 0..n |-> 0]

\* UnionFind.find with its path compression: <<the parent list afterwards, the
\* value returned>>.
RECURSIVE Find(_, _)
Find(p, i) ==
    IF p[i] # i
    THEN LET r == Find(p, p[i])
         IN  <<[r[1] EXCEPT ![i] = r[2]], r[2]>>
    ELSE <<p, p[i]>>

\* Mutants of union.
\* The return statement moved out of the if: every call reports a merge.
UnionAlwaysTrue(p, rk, i, j) ==
    LET fi == Find(p, i)
        fj == Find(fi[1], j)
        swap == rk[fi[2]] < rk[fj[2]]
        root_i == IF swap THEN fj[2] ELSE fi[2]
        root_j == IF swap THEN fi[2] ELSE fj[2]
    IN  [parent |-> [fj[1] EXCEPT ![root_j] = root_i],
         rank   |-> IF rk[root_i] = rk[root_j] /\ root_i # root_j
                    THEN [rk EXCEPT ![root_i] = @ + 1]
                    ELSE rk,
         ret    |-> TRUE]

\* root_j = j instead of root_j = self.find(j).
UnionNoFindJ(p, rk, i, j) ==
    LET fi == Find(p, i)
        swap == rk[fi[2]] < rk[j]
        root_i == IF swap THEN j ELSE fi[2]
        root_j == IF swap THEN fi[2] ELSE j
    IN  IF fi[2] # j
        THEN [parent |-> [fi[1] EXCEPT ![root_j] = root_i],
              rank   |-> IF rk[root_i] = rk[root_j]
                         THEN [rk EXCEPT ![root_i] = @ + 1]
                         ELSE rk,
              ret    |-> TRUE]
        ELSE [parent |-> fi[1], rank |-> rk, ret |-> FALSE]

\* No find at all: j is hung under i.
UnionNoFind(p, rk, i, j) ==
    IF i # j
    THEN [parent |-> [p EXCEPT ![j] = i],
          rank   |-> IF rk[i] = rk[j] THEN [rk EXCEPT ![i] = @ + 1] ELSE rk,
          ret    |-> TRUE]
    ELSE [parent |-> p, rank |-> rk, ret |-> FALSE]

\* The rank update placed before the test root_i != root_j.
UnionRankFirst(p, rk, i, j) ==
    LET fi == Find(p, i)
        fj == Find(fi[1], j)
        p2 == fj[1]
        swap == rk[fi[2]] < rk[fj[2]]
        root_i == IF swap THEN fj[2] ELSE fi[2]
        root_j == IF swap THEN fi[2] ELSE fj[2]
        rk2 == IF rk[root_i] = rk[root_j] THEN [rk EXCEPT ![root_i] = @ + 1] ELSE rk
    IN  IF fi[2] # fj[2]
        THEN [parent |-> [p2 EXCEPT ![root_j] = root_i], rank |-> rk2, ret |-> TRUE]
        ELSE [parent |-> p2, rank |-> rk2, ret |-> FALSE]

\* No comparison of ranks: root_j always goes under root_i.
UnionNoRankCompare(p, rk, i, j) ==
    LET fi == Find(p, i)
        fj == Find(fi[1], j)
        root_i == fi[2]
        root_j == fj[2]
    IN  IF root_i # root_j
        THEN [parent |-> [fj[1] EXCEPT ![root_j] = root_i],
              rank   |-> IF rk[root_i] = rk[root_j]
                         THEN [rk EXCEPT ![root_i] = @ + 1]
                         ELSE rk,
              ret    |-> TRUE]
        ELSE [parent |-> fj[1], rank |-> rk, ret |-> FALSE]

\* UnionFind.union: the parent and rank lists afterwards and the value returned.
Union(p, rk, i, j) ==
    LET fi == Find(p, i)
        fj == Find(fi[1], j)
        p2 == fj[1]
        swap == rk[fi[2]] < rk[fj[2]]
        root_i == IF swap THEN fj[2] ELSE fi[2]
        root_j == IF swap THEN fi[2] ELSE fj[2]
    IN  IF fi[2] # fj[2]
        THEN [parent |-> [p2 EXCEPT ![root_j] = root_i],
              rank   |-> IF rk[root_i] = rk[root_j]
                         THEN [rk EXCEPT ![root_i] = @ + 1]
                         ELSE rk,
              ret    |-> TRUE]
        ELSE [parent |-> p2, rank |-> rk, ret |-> FALSE]

-----------------------------------------------------------------------------
(* read_dimacs_graph *)

\* defaultdict(list).__getitem__: a missing key is inserted with an empty list.
\* <<the dict afterwards, the list under the key>>.
AdjGet(a, u) ==
    IF u \in DOMAIN a
    THEN <<a, a[u]>>
    ELSE <<[k \in DOMAIN a \cup {u} |-> IF k = u THEN <<>> ELSE a[k]], <<>>>>

\* adj[u].append((w, v))
AdjAppend(a, u, e) ==
    LET g == AdjGet(a, u)
    IN  [g[1] EXCEPT ![u] = Append(g[2], e)]

-----------------------------------------------------------------------------
(* run_kruskal *)

\* sorted(edges, key=lambda x: x[2]): a stable sort, as a stable insertion sort.
RECURSIVE InsertByWeight(_, _)
InsertByWeight(s, e) ==
    IF s = <<>> THEN <<e>>
    ELSE IF s[Len(s)][3] <= e[3] THEN Append(s, e)
    ELSE Append(InsertByWeight(SubSeq(s, 1, Len(s) - 1), e), s[Len(s)])

\* Mutant: the edges are taken in input order.
SortByWeightUnsorted(s) == s

RECURSIVE SortByWeight(_)
SortByWeight(s) ==
    IF s = <<>> THEN <<>>
    ELSE InsertByWeight(SortByWeight(SubSeq(s, 1, Len(s) - 1)), s[Len(s)])

\* The body of the for loop on one edge (u, v, w): if uf.union(u, v): ...
\* st holds the union-find lists, the last value union returned and the counters.
KruskalBody(st, e) ==
    LET r == Union(st.parent, st.rank, e[1], e[2])
    IN  [parent |-> r.parent, rank |-> r.rank, ret |-> r.ret,
         mst_weight |-> IF r.ret THEN st.mst_weight + e[3] ELSE st.mst_weight,
         edges_count |-> IF r.ret THEN st.edges_count + 1 ELSE st.edges_count]

\* The for loop from position i of s to its end.
RECURSIVE KruskalLoop(_, _, _)
KruskalLoop(st, s, i) ==
    IF i < Len(s) THEN KruskalLoop(KruskalBody(st, s[i + 1]), s, i + 1) ELSE st

-----------------------------------------------------------------------------
(* run_prim *)

\* Mutant: the seed written (node, weight).
PrimSeedSwapped == <<<<1, 0>>>>

\* pq = [(0, 1)]
PrimSeed == <<<<0, 1>>>>

\* The order of heapq on the tuples (w, u).
TupleLess(a, b) == a[1] < b[1] \/ (a[1] = b[1] /\ a[2] < b[2])

\* heapq.heappush: the heap holds the same entries plus e.
RECURSIVE HeapPush(_, _)
HeapPush(h, e) ==
    IF h = <<>> THEN <<e>>
    ELSE IF TupleLess(e, Head(h)) THEN <<e>> \o h
    ELSE <<Head(h)>> \o HeapPush(Tail(h), e)

\* for weight, neighbor in adj[u]: if neighbor not in visited: heappush(...)
RECURSIVE PushNeighbors(_, _, _)
PushNeighbors(h, l, vis) ==
    IF l = <<>> THEN h
    ELSE PushNeighbors(IF Head(l)[2] \notin vis THEN HeapPush(h, Head(l)) ELSE h,
                       Tail(l), vis)

\* Mutant: while len(visited) < num_nodes
PrimLoopCondNoEmptyTest(h, vis, n) == Cardinality(vis) < n

\* Mutant: while pq and len(visited) < num_nodes - 1
PrimLoopCondOffByOne(h, vis, n) == h # <<>> /\ Cardinality(vis) < n - 1

\* while pq and len(visited) < num_nodes
PrimLoopCond(h, vis, n) == h # <<>> /\ Cardinality(vis) < n

-----------------------------------------------------------------------------
(* benchmark: one graph *)

EmptyAdj == [k \in {} |-> <<>>]

Init ==
    /\ pc = "load"
    /\ num_nodes \in 0..MaxN
    /\ edges = <<>>
    /\ adj = EmptyAdj
    /\ parent = InitParent(0)
    /\ rank = InitRank(0)
    /\ sorted_edges = <<>>
    /\ idx = 0
    /\ mst_weight = 0
    /\ edges_count = 0
    /\ pq = <<>>
    /\ visited = {}
    /\ k_cost = 0
    /\ p_cost = 0
    /\ ret = FALSE
    /\ classes = {}

\* read_dimacs_graph, one 'a u v w' line.
ReadEdge ==
    /\ pc = "load"
    /\ Len(edges) < MaxEdges
    /\ \E u \in 1..num_nodes, v \in 1..num_nodes, w \in Weights :
          /\ edges' = Append(edges, <<u, v, w>>)
          /\ adj' = AdjAppend(AdjAppend(adj, u, <<w, v>>), v, <<w, u>>)
    /\ UNCHANGED <<pc, num_nodes, parent, rank, sorted_edges, idx, mst_weight,
                   edges_count, pq, visited, k_cost, p_cost, ret, classes>>

\* The end of the file, and run_kruskal up to its for loop.
KruskalStart ==
    /\ pc = "load"
    /\ pc' = "kruskal"
    /\ parent' = InitParent(num_nodes)
    /\ rank' = InitRank(num_nodes)
    /\ mst_weight' = 0
    /\ edges_count' = 0
    /\ sorted_edges' = SortByWeight(edges)
    /\ idx' = 0
    /\ UNCHANGED <<num_nodes, edges, adj, pq, visited, k_cost, p_cost, ret, classes>>

\* One iteration of run_kruskal's for loop.
KruskalStep ==
    /\ pc = "kruskal"
    /\ idx < Len(sorted_edges)
    /\ LET st == KruskalBody([parent |-> parent, rank |-> rank, ret |-> ret,
                              mst_weight |-> mst_weight, edges_count |-> edges_count],
                             sorted_edges[idx + 1])
       IN  /\ parent' = st.parent
           /\ rank' = st.rank
           /\ ret' = st.ret
           /\ mst_weight' = st.mst_weight
           /\ edges_count' = st.edges_count
    /\ idx' = idx + 1
    /\ UNCHANGED <<pc, num_nodes, edges, adj, sorted_edges, pq, visited, k_cost,
                   p_cost, classes>>

\* run_kruskal returns, benchmark keeps the cost, run_prim starts.
KruskalReturn ==
    /\ pc = "kruskal"
    /\ idx = Len(sorted_edges)
    /\ k_cost' = mst_weight
    /\ pc' = "prim"
    /\ pq' = PrimSeed
    /\ visited' = {}
    /\ mst_weight' = 0
    /\ UNCHANGED <<num_nodes, edges, adj, parent, rank, sorted_edges, idx,
                   edges_count, p_cost, ret, classes>>

\* One iteration of run_prim's while loop.
PrimStep ==
    /\ pc = "prim"
    /\ PrimLoopCond(pq, visited, num_nodes)
    /\ IF pq = <<>>
       THEN \* heappop of an empty heap raises IndexError
            /\ pc' = "error"
            /\ UNCHANGED <<pq, visited, mst_weight, adj>>
       ELSE LET w == Head(pq)[1]
                u == Head(pq)[2]
            IN  IF u \in visited
                THEN /\ pq' = Tail(pq)
                     /\ UNCHANGED <<pc, visited, mst_weight, adj>>
                ELSE LET g == AdjGet(adj, u)
                     IN  /\ visited' = visited \cup {u}
                         /\ mst_weight' = mst_weight + w
                         /\ adj' = g[1]
                         /\ pq' = PushNeighbors(Tail(pq), g[2], visited \cup {u})
                         /\ UNCHANGED pc
    /\ UNCHANGED <<num_nodes, edges, parent, rank, sorted_edges, idx, edges_count,
                   k_cost, p_cost, ret, classes>>

\* run_prim returns and benchmark keeps the cost.
PrimReturn ==
    /\ pc = "prim"
    /\ ~PrimLoopCond(pq, visited, num_nodes)
    /\ p_cost' = mst_weight
    /\ pc' = "done"
    /\ UNCHANGED <<num_nodes, edges, adj, parent, rank, sorted_edges, idx,
                   mst_weight, edges_count, pq, visited, k_cost, ret, classes>>

Next == ReadEdge \/ KruskalStart \/ KruskalStep \/ KruskalReturn \/ PrimStep
           \/ PrimReturn

Spec == Init /\ [][Next]_vars

\* A single-threaded run that is not done takes its next step.
FairSpec == Spec /\ WF_vars(Next)

-----------------------------------------------------------------------------
(* A UnionFind object under arbitrary calls *)

\* The equivalence generated by one more pair: the classes of x and y become one.
ClassOf(cs, x) == CHOOSE c \in cs : x \in c

Join(cs, x, y) ==
    (cs \ {ClassOf(cs, x), ClassOf(cs, y)}) \cup {ClassOf(cs, x) \cup ClassOf(cs, y)}

\* uf = UnionFind(n)
UFInit ==
    /\ pc = "uf"
    /\ num_nodes \in 0..MaxUF
    /\ parent = InitParent(num_nodes)
    /\ rank = InitRank(num_nodes)
    /\ ret = FALSE
    /\ classes = {{i} : i \in 0..num_nodes}
    /\ edges = <<>>
    /\ adj = EmptyAdj
    /\ sorted_edges = <<>>
    /\ idx = 0
    /\ mst_weight = 0
    /\ edges_count = 0
    /\ pq = <<>>
    /\ visited = {}
    /\ k_cost = 0
    /\ p_cost = 0

\* uf.find(x)
CallFind(x) ==
    /\ pc = "uf"
    /\ parent' = Find(parent, x)[1]
    /\ UNCHANGED <<pc, num_nodes, edges, adj, rank, sorted_edges, idx, mst_weight,
                   edges_count, pq, visited, k_cost, p_cost, ret, classes>>

\* uf.union(x, y)
CallUnion(x, y) ==
    /\ pc = "uf"
    /\ LET r == Union(parent, rank, x, y)
       IN  /\ parent' = r.parent
           /\ rank' = r.rank
           /\ ret' = r.ret
    /\ classes' = Join(classes, x, y)
    /\ UNCHANGED <<pc, num_nodes, edges, adj, sorted_edges, idx, mst_weight,
                   edges_count, pq, visited, k_cost, p_cost>>

UFFind == \E x \in 0..num_nodes : CallFind(x)

UFUnion == \E x \in 0..num_nodes, y \in 0..num_nodes : CallUnion(x, y)

UFNext == UFFind \/ UFUnion

UFSpec == UFInit /\ [][UFNext]_vars

-----------------------------------------------------------------------------
(* The graph the loader read, as mathematics: what the claims compare the     *)
(* algorithms' results with.                                                  *)

Vertices == 1..num_nodes

EdgeIdx == 1..Len(edges)

\* The vertices joined to a vertex of S by edges with an index in E, either way.
RECURSIVE Reach(_, _)
Reach(S, E) ==
    LET T == S \cup {edges[i][2] : i \in {j \in E : edges[j][1] \in S}}
               \cup {edges[i][1] : i \in {j \in E : edges[j][2] \in S}}
    IN  IF T = S THEN S ELSE Reach(T, E)

Component(v) == Reach({v}, EdgeIdx)

Components == {Component(v) : v \in Vertices}

Connected == \A v \in Vertices : Component(v) = Vertices

Disconnected == \E v \in Vertices : Component(v) # Vertices

RECURSIVE WeightOf(_)
WeightOf(E) ==
    IF E = {} THEN 0
    ELSE LET i == CHOOSE j \in E : TRUE IN edges[i][3] + WeightOf(E \ {i})

\* The spanning trees of the vertex set C: |C| - 1 edges inside C that join all of C.
SpanningTrees(C) ==
    {T \in SUBSET {i \in EdgeIdx : edges[i][1] \in C /\ edges[i][2] \in C} :
        /\ Cardinality(T) = Cardinality(C) - 1
        /\ Reach({CHOOSE v \in C : TRUE}, T) = C}

\* The least weight of a spanning tree of the component C.
MinTreeWeight(C) ==
    LET ws == {WeightOf(T) : T \in SpanningTrees(C)}
    IN  CHOOSE m \in ws : \A k \in ws : m <= k

RECURSIVE SumMinTreeWeight(_)
SumMinTreeWeight(Cs) ==
    IF Cs = {} THEN 0
    ELSE LET C == CHOOSE D \in Cs : TRUE
         IN  MinTreeWeight(C) + SumMinTreeWeight(Cs \ {C})

-----------------------------------------------------------------------------
(* Claims about run_kruskal and run_prim, checked under Spec *)

\* C1: on a connected graph with N >= 1, run_kruskal and run_prim return the same
\* total weight, and it is the least total weight of a spanning tree of the graph.
C1_KruskalEqualsPrimEqualsMST ==
    (pc = "done" /\ num_nodes >= 1 /\ Connected)
        => (k_cost = p_cost /\ k_cost = MinTreeWeight(Vertices))

\* A connected graph of at least two vertices where Kruskal refused an edge and the
\* tree has a positive weight.
C1_Witness ==
    /\ pc = "done"
    /\ num_nodes >= 2
    /\ Connected
    /\ edges_count < Len(edges)
    /\ k_cost > 0
    /\ k_cost = p_cost

\* C2: on a disconnected graph run_kruskal returns the sum of the components'
\* minimum spanning tree weights, run_prim returns the minimum spanning tree weight
\* of the component of vertex 1, and neither raises an error.
C2_DisconnectedForestAndComponent ==
    /\ pc = "error" => ~Disconnected
    /\ (pc = "done" /\ Disconnected)
          => /\ k_cost = SumMinTreeWeight(Components)
             /\ p_cost = MinTreeWeight(Component(1))

\* A disconnected graph whose edges lie outside the component of vertex 1: Kruskal
\* takes one and refuses another, Prim sees none, and the two results differ.
C2_Witness ==
    /\ pc = "done"
    /\ Disconnected
    /\ k_cost > p_cost
    /\ edges_count >= 1
    /\ edges_count < Len(edges)
    /\ visited = Component(1)

\* C6: no run changes its input: once loading is over the edge list stays the same
\* sequence and the adjacency structure keeps its keys and the list under each key.
C6_RunsDoNotMutateInput ==
    [][pc # "load" => (edges' = edges /\ adj' = adj)]_vars

\* C7: with no edges (N = 0 or N >= 1) both runs end without an error and return 0.
C7_EmptyGraphZero ==
    /\ pc = "error" => edges # <<>>
    /\ (pc = "done" /\ edges = <<>>) => (k_cost = 0 /\ p_cost = 0)

\* An edgeless graph of the largest size, both runs over, vertex 1 visited.
C7_Witness ==
    /\ pc = "done"
    /\ edges = <<>>
    /\ num_nodes = MaxN
    /\ visited = {1}
    /\ k_cost = 0
    /\ p_cost = 0

\* C8: every iteration of run_kruskal's loop leaves edges_count <= N - 1; an
\* iteration that starts with edges_count = N - 1 has union return False and leaves
\* mst_weight alone; and whenever edges_count = N - 1 inside the loop, mst_weight
\* is already what the loop ends with.
C8_StepBound ==
    KruskalStep =>
        /\ edges_count' <= num_nodes - 1
        /\ edges_count = num_nodes - 1 =>
              (~ret' /\ mst_weight' = mst_weight /\ edges_count' = edges_count)

C8_EarlyExitSameWeight ==
    (pc = "kruskal" /\ edges_count = num_nodes - 1)
        => KruskalLoop([parent |-> parent, rank |-> rank, ret |-> ret,
                        mst_weight |-> mst_weight, edges_count |-> edges_count],
                       sorted_edges, idx).mst_weight = mst_weight

RECURSIVE SumLen(_, _)
SumLen(a, K) ==
    IF K = {} THEN 0
    ELSE LET k == CHOOSE x \in K : TRUE IN Len(a[k]) + SumLen(a, K \ {k})

\* The entries in the heap plus the entries unvisited vertices may still push.
PrimMeasure == Len(pq) + SumLen(adj, DOMAIN adj \ visited)

C10_Step ==
    /\ visited \subseteq visited'
    /\ PrimStep =>
          /\ pc' = "prim"
          /\ PrimMeasure' < PrimMeasure
          /\ PrimMeasure' >= 0
          /\ IF Head(pq)[2] \in visited
             THEN visited' = visited /\ mst_weight' = mst_weight
             ELSE /\ visited' = visited \cup {Head(pq)[2]}
                  /\ mst_weight' = mst_weight + Head(pq)[1]

C10_Exit ==
    /\ pc # "error"
    /\ (pc = "done" /\ num_nodes >= 1) => visited = Component(1)

C10_PrimLoop == [][C10_Step]_vars /\ []C10_Exit

\* The same termination as a liveness property, for FairSpec.
PrimTerminates == (pc = "prim") ~> (pc = "done")

\* The loop has run, is not over, and the next pop is a stale entry.
C10_Witness ==
    /\ pc = "prim"
    /\ visited # {}
    /\ PrimLoopCond(pq, visited, num_nodes)
    /\ Head(pq)[2] \in visited

-----------------------------------------------------------------------------
(* Claims about UnionFind, checked under UFSpec *)

Elems == DOMAIN parent

\* The value find(x) returns on the parent list p.
Root(p, x) == Find(p, x)[2]

\* The sets the structure holds: elements with the same representative.
Sets(p) == {{b \in DOMAIN p : Root(p, b) = Root(p, a)} : a \in DOMAIN p}

\* k steps up the parent list from x.
RECURSIVE Up(_, _, _)
Up(p, x, k) == IF k = 0 THEN x ELSE Up(p, p[x], k - 1)

\* No cycle but the self-loops at roots: as many steps as there are elements end
\* at a root.
Acyclic(p) ==
    \A x \in DOMAIN p :
        LET r == Up(p, x, Cardinality(DOMAIN p)) IN r \in DOMAIN p /\ p[r] = r

\* The number of parent links from x to its root.
RECURSIVE Depth(_, _)
Depth(p, x) == IF p[x] = x THEN 0 ELSE 1 + Depth(p, p[x])

RECURSIVE Pow2(_)
Pow2(k) == IF k = 0 THEN 1 ELSE 2 * Pow2(k - 1)

\* C3: after any calls of union and find, find(a) = find(b) exactly when a and b
\* are joined by the equivalence generated by the pairs passed to union.
C3_FindIffConnected ==
    \A a \in Elems, b \in Elems :
        (Root(parent, a) = Root(parent, b)) <=> (ClassOf(classes, a) = ClassOf(classes, b))

\* Three elements joined by two unions, others still apart, and a union refused.
C3_Witness ==
    /\ \E c \in classes : Cardinality(c) >= 3
    /\ Cardinality(classes) >= 2
    /\ \E x \in Elems : Depth(parent, x) >= 1
    /\ C3_FindIffConnected

\* C4: union(x, y) returns True exactly when x and y were in different sets, and
\* then exactly those two sets become one; it returns False exactly when they
\* were in the same set, and then the sets and every rank are as before.
C4_Step ==
    \A x \in Elems, y \in Elems :
        CallUnion(x, y) =>
            /\ ret' <=> (Root(parent, x) # Root(parent, y))
            /\ ret' => Sets(parent') = Join(Sets(parent), x, y)
            /\ ~ret' => (Sets(parent') = Sets(parent) /\ rank' = rank)

C4_UnionReturn == [][C4_Step]_vars

\* Two merges have made a set of three and the last union returned False.
C4_Witness ==
    /\ ~ret
    /\ \E c \in classes : Cardinality(c) >= 3
    /\ \E r \in Elems : rank[r] >= 1

\* C5: the parent list has no cycle but the self-loops at roots, and find(x)
\* returns an r with parent[r] = r, before and after its path compression.
C5_FindReachesRoot ==
    /\ Acyclic(parent)
    /\ \A x \in Elems :
          LET f == Find(parent, x)
          IN  f[2] \in Elems /\ parent[f[2]] = f[2] /\ f[1][f[2]] = f[2]

\* An element two links below its root: find has a path to compress.
C5_Witness ==
    /\ Acyclic(parent)
    /\ \E x \in Elems : Depth(parent, x) = 2 /\ Root(parent, x) = Up(parent, x, 2)

\* C9: a merging union hangs the root of smaller rank under the root of larger
\* rank and leaves the ranks alone, or on a tie raises the new root's rank by one;
\* so every element is at most rank[root] links below its root and a root of rank
\* k has at least 2^k elements.
C9_Step ==
    \A x \in Elems, y \in Elems :
        (CallUnion(x, y) /\ ret') =>
            LET ri == Root(parent, x)
                rj == Root(parent, y)
                nr == IF parent'[ri] = ri THEN ri ELSE rj
                ch == IF nr = ri THEN rj ELSE ri
            IN  /\ parent'[nr] = nr
                /\ parent'[ch] = nr
                /\ rank[ch] <= rank[nr]
                /\ rank' = IF rank[ch] = rank[nr]
                           THEN [rank EXCEPT ![nr] = @ + 1]
                           ELSE rank

C9_Shape ==
    /\ \A x \in Elems : Depth(parent, x) <= rank[Root(parent, x)]
    /\ \A r \in Elems :
          parent[r] = r =>
              Cardinality({b \in Elems : Root(parent, b) = r}) >= Pow2(rank[r])

C9_UnionByRank == [][C9_Step]_vars /\ []C9_Shape

\* A root of rank 2, made by merging two roots of rank 1, with an element two links
\* below it.
C9_Witness ==
    \E r \in Elems :
        /\ parent[r] = r
        /\ rank[r] = 2
        /\ \E x \in Elems : Root(parent, x) = r /\ Depth(parent, x) = 2
        /\ \E y \in Elems : parent[y] = r /\ rank[y] = 1

=============================================================================
